---- MODULE Spec2Model ----
(***************************************************************************)
(* A model of the ajeeb coroutine module: the Schedule (a singly linked    *)
(* list of generators advanced by tick) and the combinators built on the   *)
(* generator protocol (next / return / throw).                             *)
(*                                                                         *)
(* The heap of list nodes is modelled explicitly: a node is a number, 0 is *)
(* null, and link / coro are the nodes' fields.  Nodes are numbered in the *)
(* order add() creates them, so a node's number is its registration rank.  *)
(***************************************************************************)
EXTENDS Integers, Sequences, FiniteSets, TLC

\* ------------------------------------------------------------------ bounds
MaxNodes == 3     \* add() calls in one behaviour
NMembers == 3     \* coroutines given to a combinator
MaxK == 3         \* a member finishes at its MaxK-th resume at the latest
MaxFrames == 4    \* the largest n given to frames(n)

NULL == 0
Nodes == 1..MaxNodes
\* Generator objects, numbered in the order they are first passed to add();
\* there are no more of them than add() calls.
Coros == 1..MaxNodes

VARIABLES
    schedule,      \* the Schedule object: front, back, size and the nodes' fields
    gen,           \* gen[c]: state of generator c: "susp" (not finished) or "done"
    pc,            \* "idle": the driver has control; "tick": inside tick's loop;
                   \* "hung": a call never returns
    lastRetained,  \* tick's local
    node,          \* tick's local
    size,          \* tick's local copy of this.size, counted down
    resumed,       \* nodes whose coroutine the current (or last) tick resumed, in order
    liveAtStart,   \* nodes reachable from front when the current (or last) tick began
    tnext,         \* number of nodes that existed when the current (or last) tick began
    last,          \* the last call the driver made and how it ended
    reent,         \* a coroutine has called remove or removeAll from inside a tick
    outcome,       \* outcome[i]: what the resume of resumed[i] reported
    validAtStart,  \* validState held when the current (or last) tick began
    threw,         \* some tick has ended with an error
    reentCalls,    \* the remove / removeAll calls coroutines made during this tick
                   \* (at: the place in resumed of the resume that made the call)
    born,          \* nodes that add() created while a tick was running
    fresh,         \* nodes of born not resumed yet
    owed,          \* nodes a throwing tick did not reach, not resumed since
    repaid,        \* nodes of owed that the current (or last) tick resumed
    prevThrow,     \* the node whose resume raised the error that ended the tick
                   \* before the current (or last) one, if the driver made no
                   \* other call between the two; else NULL
    hist           \* what the driver has done since it last called removeAll:
                   \* "cleared": ticks only; "added": one add, and at most one
                   \* tick after it; "no": anything else, or no removeAll yet

\* The combinators (first, all) over member generators.
VARIABLES
    comb,          \* which combinator was called: "first", "all" or "none"
    coros,         \* all's array coros: the members still outstanding, as it holds them
    prestarted,    \* the members that had been resumed before the combinator got them
    members,       \* members[m]: what member m's body does (see MemberShapes)
    ms,            \* ms[m]: member m's generator state and the resumes it has had
    fstate,        \* the combinator's own generator state: "new", "susp" or "done"
    log,           \* what the last call on the combinator did, in order
    cleaned,       \* cleaned[m]: the finally blocks of member m that have run, in order
    steps,         \* calls of next() that ran the combinator's body
    result,        \* what the last call on the combinator gave its caller
    fend           \* how and when the combinator ended

\* Coroutines that wait with frames(n).
VARIABLES
    waiters        \* waiters[c]: the state of the generator add() was given as c

\* The clock and a coroutine that waits with seconds(s).
VARIABLES
    clock,         \* _clock: which clock function the module currently holds
    now,           \* now[f]: what a call of the clock function f returns
    timer          \* the generator a call of seconds made

schedVars == <<schedule, gen, pc, lastRetained, node, size, resumed, liveAtStart, tnext,
               last, reent, outcome, validAtStart, threw, reentCalls, born, fresh, owed,
               repaid, hist, prevThrow>>

\* The arguments of a combinator that are factories.
VARIABLES
    factories,     \* the members passed as a zero-argument function, not as a generator
    called         \* the members whose function has been called, in the order of the calls

facVars == <<factories, called>>

timeVars == <<clock, now, timer>>

combVars == <<comb, coros, prestarted, members, ms, fstate, log, cleaned, steps, result, fend,
              waiters, timeVars, facVars>>

vars == <<schedVars, combVars>>

\* ------------------------------------------------------------------ errors
NoErr == [kind |-> "none", by |-> 0]
TypeErr == [kind |-> "TypeError", by |-> 0]      \* property access on null
Thrown(c) == [kind |-> "thrown", by |-> c]       \* the error generator c raises

Range(s) == {s[i] : i \in 1..Len(s)}

\* ------------------------------------------------------------------ the list
RECURSIVE ChainFrom(_, _, _)
ChainFrom(S, n, fuel) ==
    IF n = NULL \/ fuel = 0 THEN <<>>
    ELSE <<n>> \o ChainFrom(S, S.link[n], fuel - 1)

\* the nodes reachable from front by following link, in order
Chain(S) == ChainFrom(S, S.front, MaxNodes + 1)

\* the coroutines of the reachable nodes, in order
ChainCoros(S) == [i \in 1..Len(Chain(S)) |-> S.coro[Chain(S)[i]]]

actualSize(S) == Len(Chain(S))

actualBack(S) == IF Chain(S) = <<>> THEN NULL ELSE Chain(S)[Len(Chain(S))]

validState(S) == S.size = actualSize(S) /\ S.back = actualBack(S)

\* new Schedule()
NewSchedule ==
    [front |-> NULL, back |-> NULL, size |-> 0,
     link |-> [n \in Nodes |-> NULL], coro |-> [n \in Nodes |-> 0], nalloc |-> 0]

\* The result of a call: the schedule after it, the error it raised, and
\* whether it returns at all.
Result(S, e, h) == [s |-> S, err |-> e, hang |-> h]

\* A faulty add: the node is linked in before front instead of after back.
addFront(S, c) ==
    LET n == S.nalloc + 1
        S1 == [S EXCEPT !.nalloc = n, !.coro[n] = c, !.link[n] = S.front]
    IN Result([S1 EXCEPT !.front = n,
                         !.back = IF S.size = 0 THEN n ELSE S.back,
                         !.size = S.size + 1], NoErr, FALSE)

\* add(coro): the node is appended after back
add(S, c) ==
    LET n == S.nalloc + 1
        S1 == [S EXCEPT !.nalloc = n, !.coro[n] = c, !.link[n] = NULL]
    IN IF S.size = 0
       THEN Result([S1 EXCEPT !.front = n, !.back = n, !.size = S.size + 1], NoErr, FALSE)
       ELSE IF S.back = NULL
            THEN Result(S, TypeErr, FALSE)    \* this.back.link = node, back is null
            ELSE Result([S1 EXCEPT !.link[S.back] = n, !.back = n, !.size = S.size + 1],
                        NoErr, FALSE)

\* remove(coro).  The loop over the rest of the list never advances node, so
\* it looks only at front.link: it unlinks it, raises on null, or spins.
remove(S, c) ==
    IF S.front = NULL THEN Result(S, TypeErr, FALSE)           \* this.front.coro
    ELSE IF S.coro[S.front] = c
    THEN IF S.back = NULL THEN Result(S, TypeErr, FALSE)       \* this.back.coro
         ELSE Result([S EXCEPT !.back = IF S.coro[S.back] = c THEN S.link[S.back]
                                        ELSE S.back,
                               !.front = S.link[S.front],
                               !.size = S.size - 1], NoErr, FALSE)
    ELSE LET nd == S.front
             nx == S.link[nd]
         IN IF nx = NULL THEN Result(S, TypeErr, FALSE)        \* node.link.coro
            ELSE IF S.coro[nx] = c
            THEN Result([S EXCEPT !.back = IF S.back = nx THEN nd ELSE S.back,
                                  !.link[nd] = S.link[nx],
                                  !.size = S.size - 1], NoErr, FALSE)
            ELSE Result(S, NoErr, TRUE)                        \* while(node) forever

\* A faulty removeAll: size keeps its value.
removeAllKeepSize(S) == Result([S EXCEPT !.front = NULL, !.back = NULL], NoErr, FALSE)

\* removeAll()
removeAll(S) == Result([S EXCEPT !.front = NULL, !.back = NULL, !.size = 0], NoErr, FALSE)

\* ------------------------------------------------------------------ tick
\* A faulty loop test: tick walks the list until it ends, entries appended
\* during the tick included.
LoopWhileNode(sz, n) == n # NULL

\* while(size--): tick's loop runs while its local count is not zero
LoopTest(sz, n) == sz # 0

\* A faulty done branch: the entry is unlinked and this.size-- is left out.
UnlinkKeepSize(S, lr, n) ==
    IF lr # NULL
    THEN [S EXCEPT !.link[lr] = S.link[n],
                   !.back = IF S.back = n THEN lr ELSE S.back]
    ELSE [S EXCEPT !.front = S.link[n],
                   !.back = IF S.back = n THEN S.link[n] ELSE S.back]

\* A faulty done branch: the entry is always unlinked as if it were the first,
\* which drops the retained entries before it.
UnlinkAsFront(S, lr, n) ==
    [S EXCEPT !.size = S.size - 1,
              !.front = S.link[n],
              !.back = IF S.back = n THEN S.link[n] ELSE S.back]

\* the branch of tick taken when next() reports done
Unlink(S, lr, n) ==
    IF lr # NULL
    THEN [S EXCEPT !.size = S.size - 1,
                   !.link[lr] = S.link[n],
                   !.back = IF S.back = n THEN lr ELSE S.back]
    ELSE [S EXCEPT !.size = S.size - 1,
                   !.front = S.link[n],
                   !.back = IF S.back = n THEN S.link[n] ELSE S.back]

\* A faulty test: an entry whose resume raised an error is taken for finished.
DoneOrRaised(e, out) == e.kind # "none" \/ out = "done"

\* if (node.coro.next().done): the resume returned, and its result says done
ReportsDone(e, out) == e.kind = "none" /\ out = "done"

\* A faulty tick: an error raised by next() is caught and the loop goes on.
NeverAborts(e) == FALSE

\* tick has no try/catch: an error raised by next() leaves tick at once
Aborts(e) == e.kind # "none"

\* the generators that have been passed to add() so far
Known(S) == {S.coro[n] : n \in 1..S.nalloc}

\* The generators a call of add() may be given: one it was given before, or
\* the next new one.
Addable(S) == {c \in Coros : c <= Cardinality(Known(S)) + 1}

\* The handles a call of remove() may be given: a generator that was passed
\* to add() before, or one that never was (numbered past the known ones).
Removable(S) == 1..(Cardinality(Known(S)) + 1)

\* What a coroutine may do to its own schedule during one resume: nothing or
\* an add ...
AddEffects(S) ==
    {[t |-> "none", c |-> 0]} \cup {[t |-> "add", c |-> x] : x \in Addable(S)}

\* ... or a remove or a removeAll.
Effects(S) ==
    AddEffects(S) \cup {[t |-> "removeAll", c |-> 0]}
    \cup {[t |-> "remove", c |-> x] : x \in Removable(S)}

Apply(S, eff) ==
    CASE eff.t = "none" -> Result(S, NoErr, FALSE)
      [] eff.t = "add" -> add(S, eff.c)
      [] eff.t = "remove" -> remove(S, eff.c)
      [] eff.t = "removeAll" -> removeAll(S)

\* ------------------------------------------------------------------ factories
\* no argument is a factory, and so none has been called
FacIdle ==
    /\ factories = {}
    /\ called = <<>>

RECURSIVE InOrder(_, _, _)
\* the members of F among i..n, in ascending order
InOrder(F, i, n) ==
    IF i > n THEN <<>>
    ELSE (IF i \in F THEN <<i>> ELSE <<>>) \o InOrder(F, i + 1, n)

RECURSIVE InReverse(_, _)
InReverse(F, n) ==
    IF n = 0 THEN <<>>
    ELSE (IF n \in F THEN <<n>> ELSE <<>>) \o InReverse(F, n - 1)

\* A faulty normalisation: the factories are called last to first.
mapInitializeReversed(n) == InReverse(factories, n)

\* coros.map(initialize), initialize being c => typeof c === "function" ? c() : c:
\* the calls of factories it makes among n arguments, first argument first
mapInitialize(n) == InOrder(factories, 1, n)

\* The members as a next() on a combinator in state st finds them: the first
\* one runs coros.map(initialize), which leaves a generator, not resumed, for
\* each factory
Initialized(gs, st) ==
    IF st = "new"
    THEN [m \in DOMAIN gs |-> IF gs[m].state = "unmade"
                              THEN [gs[m] EXCEPT !.state = "new"]
                              ELSE gs[m]]
    ELSE gs

\* ------------------------------------------------------------------ the clock
MaxTime == 3

\* the clock functions: f is the module's initial _clock, g is one that a
\* caller passes to setClock or to seconds
Clocks == {"f", "g"}

Undefined0 == -1

\* no call of seconds yet.  pos: where the generator is; s, fn: its parameters
\* (dflt: fn is the default); start: startTime; samples: how often startTime
\* was assigned; read, at: the clock function its last loop test called and
\* what that returned; op: the last call on it; made: what fn returned when
\* seconds was called
NoTimer == [pos |-> "none", s |-> 0, fn |-> "f", dflt |-> TRUE, start |-> Undefined0,
            samples |-> 0, read |-> "none", at |-> Undefined0, op |-> "none",
            made |-> Undefined0, setDuring |-> FALSE]

\* let _clock = () => performance.now() / 1000, an integer-valued clock here
TimeIdle ==
    /\ clock = "f"
    /\ now = [f \in Clocks |-> 0]
    /\ timer = NoTimer

\* ------------------------------------------------------------------ actions
SchedInit ==
    /\ schedule = NewSchedule
    /\ gen = [c \in Coros |-> "susp"]
    /\ pc = "idle"
    /\ lastRetained = NULL
    /\ node = NULL
    /\ size = 0
    /\ resumed = <<>>
    /\ liveAtStart = <<>>
    /\ tnext = 0
    /\ last = [op |-> "new", arg |-> 0, err |-> NoErr, pre |-> <<>>, valid |-> TRUE]
    /\ reent = FALSE
    /\ outcome = <<>>
    /\ validAtStart = TRUE
    /\ threw = FALSE
    /\ reentCalls = {}
    /\ born = {}
    /\ fresh = {}
    /\ owed = {}
    /\ repaid = {}
    /\ hist = "no"
    /\ prevThrow = NULL

tickLocals == <<lastRetained, node, size>>

\* what was recorded about the last tick is dropped at the driver's next call
Forget ==
    /\ resumed' = <<>>
    /\ outcome' = <<>>
    /\ liveAtStart' = <<>>
    /\ validAtStart' = TRUE
    /\ tnext' = 0
    /\ reentCalls' = {}
    /\ repaid' = {}

\* the driver calls schedule.add(c)
Add(c) ==
    /\ pc = "idle"
    /\ schedule.nalloc < MaxNodes
    /\ LET r == add(schedule, c)
       IN /\ schedule' = r.s
          /\ last' = [op |-> "add", arg |-> c, err |-> r.err, pre |-> <<>>,
                      valid |-> TRUE]
    /\ hist' = IF hist = "cleared" THEN "added" ELSE "no"
    /\ prevThrow' = NULL
    /\ Forget
    /\ UNCHANGED <<gen, pc, tickLocals, reent, threw, born, fresh, owed>>
    /\ UNCHANGED combVars

\* the driver calls schedule.remove(c)
Remove(c) ==
    /\ pc = "idle"
    /\ LET r == remove(schedule, c)
       IN /\ schedule' = r.s
          /\ pc' = IF r.hang THEN "hung" ELSE "idle"
          /\ last' = [op |-> "remove", arg |-> c, err |-> r.err,
                      pre |-> ChainCoros(schedule), valid |-> validState(schedule)]
          /\ fresh' = fresh \cap Range(Chain(r.s))
          /\ owed' = owed \cap Range(Chain(r.s))
    /\ hist' = "no"
    /\ prevThrow' = NULL
    /\ Forget
    /\ UNCHANGED <<gen, tickLocals, reent, threw, born>>
    /\ UNCHANGED combVars

\* A faulty removeAll: every scheduled generator is force-returned.
RemoveAllForcing ==
    /\ pc = "idle"
    /\ schedule' = removeAll(schedule).s
    /\ gen' = [c \in Coros |-> IF c \in Range(ChainCoros(schedule)) THEN "done"
                                ELSE gen[c]]
    /\ last' = [op |-> "removeAll", arg |-> 0, err |-> NoErr, pre |-> <<>>,
                valid |-> TRUE]
    /\ fresh' = {}
    /\ owed' = {}
    /\ hist' = "cleared"
    /\ prevThrow' = NULL
    /\ Forget
    /\ UNCHANGED <<pc, tickLocals, reent, threw, born>>
    /\ UNCHANGED combVars

\* the driver calls schedule.removeAll()
RemoveAll ==
    /\ pc = "idle"
    /\ schedule' = removeAll(schedule).s
    /\ last' = [op |-> "removeAll", arg |-> 0, err |-> NoErr, pre |-> <<>>,
                valid |-> TRUE]
    /\ fresh' = {}
    /\ owed' = {}
    /\ hist' = "cleared"
    /\ prevThrow' = NULL
    /\ Forget
    /\ UNCHANGED <<gen, pc, tickLocals, reent, threw, born>>
    /\ UNCHANGED combVars

\* the driver calls schedule.tick(): the locals are set and the loop is entered
Tick ==
    /\ pc = "idle"
    /\ resumed' = <<>>
    /\ outcome' = <<>>
    /\ liveAtStart' = Chain(schedule)
    /\ validAtStart' = validState(schedule)
    /\ tnext' = schedule.nalloc
    /\ reentCalls' = {}
    /\ repaid' = {}
    /\ last' = [op |-> "tick", arg |-> 0, err |-> NoErr, pre |-> <<>>,
                valid |-> TRUE]
    /\ IF LoopTest(schedule.size, schedule.front)
       THEN /\ pc' = "tick"
            /\ lastRetained' = NULL
            /\ node' = schedule.front
            /\ size' = schedule.size
       ELSE /\ pc' = "idle"
            /\ UNCHANGED <<lastRetained, node, size>>
    /\ hist' = IF hist = "added" /\ last.op = "tick" THEN "no" ELSE hist
    /\ prevThrow' = IF /\ last.op = "tick"
                       /\ resumed # <<>>
                       /\ Len(outcome) = Len(resumed)
                       /\ outcome[Len(resumed)].r = "throw"
                    THEN resumed[Len(resumed)] ELSE NULL
    /\ UNCHANGED <<schedule, gen, reent, threw, born, fresh, owed>>
    /\ UNCHANGED combVars

\* tick is left (by return or by an error): its locals are gone
TickLeaves ==
    /\ lastRetained' = NULL
    /\ node' = NULL
    /\ size' = 0

\* One pass of tick's loop: size--, node.coro.next() (the coroutine runs to its
\* next yield, its return or its throw, and may call the schedule meanwhile),
\* the unlinking of a finished entry, node = node.link, and the loop test.
\* The variable size holds the local's value before the decrement of the
\* pass; a negative count can never reach zero and is left as it is.
TickPass(reentrant) ==
    /\ pc = "tick"
    /\ UNCHANGED combVars
    /\ IF node = NULL
       THEN \* node.coro raises a TypeError
            /\ pc' = "idle"
            /\ last' = [last EXCEPT !.err = TypeErr]
            /\ threw' = TRUE
            /\ TickLeaves
            /\ UNCHANGED <<schedule, gen, resumed, outcome, liveAtStart, validAtStart,
                           tnext, reent, reentCalls, born, fresh, owed, repaid, hist, prevThrow>>
       ELSE LET c == schedule.coro[node] IN
            \E eff \in (IF reentrant THEN Effects(schedule) ELSE AddEffects(schedule)),
               out \in {"yield", "done", "throw"} :
               /\ gen[c] = "done" => (eff.t = "none" /\ out = "done")
               /\ eff.t = "add" => schedule.nalloc < MaxNodes
               /\ LET r == Apply(schedule, eff)
                      e == IF r.err.kind # "none" THEN r.err
                           ELSE IF out = "throw" THEN Thrown(c) ELSE NoErr
                      finished == ~r.hang /\ ReportsDone(e, out)
                      sz == IF size < 0 THEN size ELSE size - 1
                      S2 == IF finished THEN Unlink(r.s, lastRetained, node) ELSE r.s
                      nx == S2.link[node]
                      added == IF eff.t = "add" /\ r.err.kind = "none"
                               THEN {r.s.nalloc} ELSE {}
                      call == IF eff.t \in {"remove", "removeAll"}
                              THEN {[op |-> eff.t, c |-> eff.c,
                                     at |-> Len(resumed) + 1,
                                     ok |-> r.err.kind = "none" /\ ~r.hang,
                                     present |-> eff.c \in Range(ChainCoros(schedule))]}
                              ELSE {}
                      stop == r.hang \/ Aborts(e)
                  IN /\ schedule' = S2
                     /\ gen' = [gen EXCEPT ![c] = IF out = "yield" /\ e.kind = "none"
                                                  THEN "susp" ELSE "done"]
                     /\ resumed' = Append(resumed, node)
                     /\ outcome' = Append(outcome,
                                     [r |-> IF r.hang THEN "hang"
                                            ELSE IF e.kind # "none" THEN "throw" ELSE out,
                                      err |-> e])
                     /\ reent' = (reent \/ call # {})
                     /\ reentCalls' = reentCalls \cup call
                     /\ born' = born \cup added
                     /\ fresh' = (fresh \ {node}) \cup added
                     /\ repaid' = repaid \cup (owed \cap {node})
                     /\ IF stop
                        THEN /\ pc' = IF r.hang THEN "hung" ELSE "idle"
                             /\ last' = [last EXCEPT !.err = e]
                             /\ threw' = (threw \/ ~r.hang)
                             /\ owed' = (owed \ {node}) \cup
                                        (Range(liveAtStart) \ Range(resumed'))
                             /\ TickLeaves
                        ELSE /\ last' = last
                             /\ threw' = threw
                             /\ owed' = owed \ {node}
                             /\ IF LoopTest(sz, nx)
                                THEN /\ pc' = "tick"
                                     /\ lastRetained' = IF finished THEN lastRetained
                                                        ELSE node
                                     /\ node' = nx
                                     /\ size' = sz
                                ELSE /\ pc' = "idle"
                                     /\ TickLeaves
                     /\ UNCHANGED <<liveAtStart, validAtStart, tnext, hist, prevThrow>>

\* a pass of the loop in which the coroutine leaves the list alone or adds to it
TickIter == TickPass(FALSE)

\* a pass of the loop in which the coroutine may also remove entries
TickIterReentrant == TickPass(TRUE)

\* ------------------------------------------------------------------ generators
\* What a member generator's body does: it finishes at its k-th resume, by
\* returning its value or by throwing, and its yields sit inside depth nested
\* try/finally blocks (2: a generator with a try/finally that delegates, by
\* yield*, to a generator with a try/finally of its own).  cleanup says
\* whether its innermost finally block runs to its end or throws there.
MemberShapes == [k : 1..MaxK, ending : {"return", "throw"}, depth : {0, 1, 2},
                 cleanup : {"ok", "throw"}]

Undefined == 0

\* the value member m returns
Val(m) == m

Ev(e, m, lvl) == [e |-> e, m |-> m, lvl |-> lvl]

\* A faulty unwinding: the outermost finally block runs first.
OuterFirst(m) == [i \in 1..members[m].depth |-> i]

\* the finally blocks around member m's yields, innermost first
Levels(m) == [i \in 1..members[m].depth |-> members[m].depth + 1 - i]

Cleanup(m) == [i \in 1..members[m].depth |-> Ev("cleanup", m, Levels(m)[i])]

\* member m has a finally block, and it throws
CleanupRaises(m) == members[m].depth >= 1 /\ members[m].cleanup = "throw"

\* no error of a cleanup; else the member whose finally block threw and the
\* level of that block
NoCErr == [m |-> 0, lvl |-> 0]

\* new generators and nothing logged: C is the record of what a call works on
NewMembers ==
    [ms |-> [m \in 1..NMembers |-> [state |-> "new", cnt |-> 0]],
     log |-> <<>>,
     cleaned |-> [m \in 1..NMembers |-> <<>>],
     cerr |-> NoCErr]

\* c.next() on member m: a finished generator reports done; otherwise the body
\* runs to its next yield, or to its end through its finally blocks.  What a
\* finally block throws replaces the body's return or throw; lvl is the
\* level of the finally block an error comes from, 0 for the body's own.
MemberNext(C, m) ==
    LET s == C.ms[m]
        C1 == [C EXCEPT !.log = Append(@, Ev("next", m, 0))]
    IN IF s.state = "done"
       THEN [c |-> C1, out |-> "done", value |-> Undefined, lvl |-> 0]
       ELSE IF s.cnt + 1 = members[m].k
       THEN [c |-> [C1 EXCEPT !.ms[m] = [state |-> "done", cnt |-> s.cnt + 1],
                              !.log = @ \o Cleanup(m),
                              !.cleaned[m] = @ \o Levels(m)],
             out |-> IF CleanupRaises(m) THEN "throw"
                     ELSE IF members[m].ending = "return" THEN "done" ELSE "throw",
             value |-> IF ~CleanupRaises(m) /\ members[m].ending = "return"
                       THEN Val(m) ELSE Undefined,
             lvl |-> IF CleanupRaises(m) THEN members[m].depth ELSE 0]
       ELSE [c |-> [C1 EXCEPT !.ms[m] = [state |-> "susp", cnt |-> s.cnt + 1]],
             out |-> "yield", value |-> Undefined, lvl |-> 0]

\* c.return() on member m: a generator suspended at a yield runs its finally
\* blocks; one that never started, or has finished, runs nothing.  If a
\* finally block throws, return() throws that error: C.cerr holds it.
MemberReturn(C, m) ==
    LET s == C.ms[m]
        C1 == [C EXCEPT !.log = Append(@, Ev("return", m, 0))]
    IN IF s.state = "susp"
       THEN [C1 EXCEPT !.ms[m].state = "done",
                       !.log = @ \o Cleanup(m),
                       !.cleaned[m] = @ \o Levels(m),
                       !.cerr = IF CleanupRaises(m)
                                THEN [m |-> m, lvl |-> members[m].depth] ELSE @]
       ELSE [C1 EXCEPT !.ms[m].state = "done"]

\* ------------------------------------------------------------------ first
\* A faulty scan: the members are resumed last to first.
ReversedScan(n) == [i \in 1..n |-> n + 1 - i]

\* for (const c of coros) in first's loop: the members in declared order
firstScanOrder(n) == [i \in 1..n |-> i]

\* A faulty finally block: the members are force-returned last to first.
ReversedFinally(n) == [i \in 1..n |-> n + 1 - i]

\* for (const c of coros) in first's finally block
firstFinallyOrder(n) == [i \in 1..n |-> i]

RECURSIVE ReturnEachQuiet(_, _, _)
\* A faulty finally block: what a return() throws is caught and dropped.
ReturnEachQuiet(C, order, i) ==
    IF i > Len(order) THEN C
    ELSE ReturnEachQuiet([MemberReturn(C, order[i]) EXCEPT !.cerr = NoCErr], order, i + 1)

RECURSIVE ReturnEach(_, _, _)
\* for (const c of coros) c.return(): a return() that throws leaves the loop
ReturnEach(C, order, i) ==
    IF i > Len(order) \/ C.cerr # NoCErr THEN C
    ELSE ReturnEach(MemberReturn(C, order[i]), order, i + 1)

\* How a call on a combinator ends after its finally block: what the block
\* threw, if it threw, and else what was on its way (e: "deliver", "raise" or
\* "complete", by member by).  The end is put in the log.
Ending(F, e, by, lvl) ==
    IF F.cerr # NoCErr
    THEN [c |-> [F EXCEPT !.log = Append(@, Ev("raise", F.cerr.m, F.cerr.lvl))],
          out |-> "throw", by |-> F.cerr.m, threw |-> TRUE]
    ELSE [c |-> [F EXCEPT !.log = Append(@, Ev(e, by, lvl))],
          out |-> IF e = "raise" THEN "throw" ELSE "done", by |-> by, threw |-> FALSE]

firstFinally(C) == ReturnEach(C, firstFinallyOrder(Len(C.ms)), 1)

RECURSIVE firstScan(_, _, _)
\* for (const c of coros) { let { done, value } = c.next(); if(done) return value }
firstScan(C, order, i) ==
    IF i > Len(order)
    THEN [c |-> C, out |-> "yield", value |-> Undefined, by |-> 0, lvl |-> 0]
    ELSE LET r == MemberNext(C, order[i])
         IN IF r.out = "yield" THEN firstScan(r.c, order, i + 1)
            ELSE [c |-> r.c, out |-> r.out, value |-> r.value, by |-> order[i],
                  lvl |-> r.lvl]

\* next() on the generator first(...) returned, st being its state
firstNext(C, st) ==
    IF st = "done"
    THEN [c |-> C, st |-> "done", out |-> "done", value |-> Undefined, by |-> 0]
    ELSE LET r == firstScan(C, firstScanOrder(Len(C.ms)), 1)
         IN IF r.out = "yield"
            THEN [c |-> r.c, st |-> "susp", out |-> "yield", value |-> Undefined, by |-> 0]
            ELSE LET f == Ending(firstFinally(r.c),
                                 IF r.out = "done" THEN "deliver" ELSE "raise", r.by, r.lvl)
                 IN [c |-> f.c, st |-> "done", out |-> f.out,
                     value |-> IF f.threw THEN Undefined ELSE r.value, by |-> f.by]

\* A faulty return(): the finally block runs whatever the generator's state.
firstReturnAlways(C, st) == firstFinally(C)

\* return() on the generator first(...) returned: the finally block runs
\* only if the body is suspended at its yield
firstReturn(C, st) ==
    IF st = "susp" THEN firstFinally(C) ELSE C

\* what a call of return() on a combinator gives its caller when its finally
\* block has left the members as c: the error of a cleanup, if there is one
Cancelled(c) ==
    IF c.cerr # NoCErr
    THEN [log |-> Append(c.log, Ev("raise", c.cerr.m, c.cerr.lvl)),
          result |-> [op |-> "return", out |-> "throw", value |-> Undefined],
          fend |-> [how |-> "raised", step |-> steps, value |-> Undefined, by |-> c.cerr.m]]
    ELSE [log |-> c.log,
          result |-> [op |-> "return", out |-> "done", value |-> Undefined],
          fend |-> [how |-> "cancelled", step |-> steps, value |-> Undefined, by |-> 0]]

CombIdle ==
    /\ comb = "none"
    /\ coros = <<>>
    /\ prestarted = {}
    /\ waiters = <<>>
    /\ TimeIdle
    /\ FacIdle
    /\ members = <<>>
    /\ ms = <<>>
    /\ fstate = "done"
    /\ log = <<>>
    /\ cleaned = <<>>
    /\ steps = 0
    /\ result = [op |-> "none", out |-> "none", value |-> Undefined]
    /\ fend = [how |-> "no", step |-> 0, value |-> Undefined, by |-> 0]

\* The member lists a combinator is given.  At most one member is one that
\* throws: the first error ends the combinator, which force-returns the other
\* members, so a second one would never reach its throw.
\* more resumes than any member needs
MaxSteps == MaxK + 1

MemberLists ==
    {f \in [1..NMembers -> {sh \in MemberShapes : sh.cleanup = "ok"}] :
        Cardinality({m \in 1..NMembers : f[m].ending = "throw"}) <= 1}

\* The shapes of a member whose cleanup throws, and those of the members
\* beside it
RaisingShapes == {sh \in MemberShapes : sh.cleanup = "throw" /\ sh.depth >= 1}

PlainShapes == {sh \in MemberShapes : sh.cleanup = "ok" /\ sh.depth <= 1}

\* first(m1, ..., mn) has been called with new generators of any shapes
FirstInit ==
    /\ SchedInit
    /\ comb = "first"
    /\ coros = <<>>
    /\ prestarted = {}
    /\ waiters = <<>>
    /\ TimeIdle
    /\ FacIdle
    /\ members \in MemberLists
    /\ ms = NewMembers.ms
    /\ fstate = "new"
    /\ log = <<>>
    /\ cleaned = NewMembers.cleaned
    /\ steps = 0
    /\ result = [op |-> "none", out |-> "none", value |-> Undefined]
    /\ fend = [how |-> "no", step |-> 0, value |-> Undefined, by |-> 0]

\* the caller calls next() on the combinator (a caller gives up on one that
\* has yielded MaxSteps times)
FirstResume ==
    /\ comb = "first"
    /\ steps < MaxSteps
    /\ LET r == firstNext([ms |-> Initialized(ms, fstate), log |-> <<>>, cleaned |-> cleaned,
                            cerr |-> NoCErr], fstate)
       IN /\ ms' = r.c.ms
          /\ log' = r.c.log
          /\ cleaned' = r.c.cleaned
          /\ fstate' = r.st
          /\ steps' = IF fstate = "done" THEN steps ELSE steps + 1
          /\ result' = [op |-> "next", out |-> r.out, value |-> r.value]
          /\ fend' = IF fstate # "done" /\ r.st = "done"
                     THEN [how |-> IF r.out = "done" THEN "completed" ELSE "raised",
                           step |-> steps + 1, value |-> r.value, by |-> r.by]
                     ELSE fend
    /\ called' = IF fstate = "new" THEN mapInitialize(Len(members)) ELSE called
    /\ UNCHANGED <<comb, coros, prestarted, waiters, members, schedVars, timeVars, factories>>

\* the caller calls return() on the combinator
FirstCancel ==
    /\ comb = "first"
    /\ LET c == firstReturn([ms |-> ms, log |-> <<>>, cleaned |-> cleaned,
                             cerr |-> NoCErr], fstate)
       IN /\ ms' = c.ms
          /\ log' = Cancelled(c).log
          /\ cleaned' = c.cleaned
          /\ result' = Cancelled(c).result
          /\ fend' = IF fstate # "done" THEN Cancelled(c).fend ELSE fend
    /\ fstate' = "done"
    /\ UNCHANGED <<comb, coros, prestarted, waiters, members, steps, schedVars, timeVars,
                   facVars>>

\* ------------------------------------------------------------------ all
\* A faulty all: the array is not reversed, so that the countdown resumes the
\* members last to first.
NotReversed(cs) == cs

\* coros.map(initialize).reverse(): the members, the last declared first
allReversed(cs) == [i \in 1..Len(cs) |-> cs[Len(cs) + 1 - i]]

\* A faulty done branch: the finished member stays in the array.
KeepAt(cs, i) == cs

\* coros.splice(i, 1), positions counted from 1
splice(cs, i) == SubSeq(cs, 1, i - 1) \o SubSeq(cs, i + 1, Len(cs))

\* A faulty finally block: no member is force-returned.
ReturnNone(cs) == <<>>

\* for (const c of coros) in all's finally block: the array from its start
allFinallyOrder(cs) == cs

allFinally(C, cs) == ReturnEach(C, allFinallyOrder(cs), 1)

\* A faulty test: no array passes for empty.
allEmptyNever(cs) == Len(cs) < 0

\* if(coros.length == 0) return
allEmpty(cs) == Len(cs) = 0

RECURSIVE allScan(_, _, _)
\* let i = coros.length; while(i--) if(coros[i].next().done) coros.splice(i, 1)
\* Position i here is the array index i - 1; a next() that throws leaves the loop.
allScan(C, cs, i) ==
    IF i = 0 THEN [c |-> C, cs |-> cs, out |-> "scanned", by |-> 0, lvl |-> 0]
    ELSE LET r == MemberNext(C, cs[i])
         IN IF r.out = "throw"
            THEN [c |-> r.c, cs |-> cs, out |-> "throw", by |-> cs[i], lvl |-> r.lvl]
            ELSE allScan(r.c, IF r.out = "done" THEN splice(cs, i) ELSE cs, i - 1)

\* next() on the generator all(...) returned, st being its state and cs its
\* array coros (the arguments, until the body has begun)
allNext(C, cs, st) ==
    IF st = "done"
    THEN [c |-> C, cs |-> cs, st |-> "done", out |-> "done", value |-> Undefined, by |-> 0]
    ELSE LET cs0 == IF st = "new" THEN allReversed(cs) ELSE cs
             r == allScan(C, cs0, Len(cs0))
             f == Ending(allFinally(r.c, r.cs),
                         IF r.out = "throw" THEN "raise" ELSE "complete", r.by, r.lvl)
         IN IF r.out = "throw" \/ allEmpty(r.cs)
            THEN [c |-> f.c, cs |-> r.cs, st |-> "done", out |-> f.out,
                  value |-> Undefined, by |-> f.by]
            ELSE [c |-> r.c, cs |-> r.cs, st |-> "susp", out |-> "yield",
                  value |-> Undefined, by |-> 0]

\* A faulty return(): the finally block runs whatever the generator's state.
allReturnAlways(C, cs, st) == allFinally(C, cs)

\* return() on the generator all(...) returned: the finally block runs only
\* if the body is suspended at its yield
allReturn(C, cs, st) ==
    IF st = "susp" THEN allFinally(C, cs) ELSE C

\* all(m1, ..., mn) has been called with new generators of any shapes
AllInit ==
    /\ SchedInit
    /\ comb = "all"
    /\ coros = [i \in 1..NMembers |-> i]
    /\ prestarted = {}
    /\ waiters = <<>>
    /\ TimeIdle
    /\ FacIdle
    /\ members \in MemberLists
    /\ ms = NewMembers.ms
    /\ fstate = "new"
    /\ log = <<>>
    /\ cleaned = NewMembers.cleaned
    /\ steps = 0
    /\ result = [op |-> "none", out |-> "none", value |-> Undefined]
    /\ fend = [how |-> "no", step |-> 0, value |-> Undefined, by |-> 0]

\* the caller calls next() on the combinator
AllResume ==
    /\ comb = "all"
    /\ steps < MaxSteps
    /\ LET r == allNext([ms |-> Initialized(ms, fstate), log |-> <<>>, cleaned |-> cleaned,
                          cerr |-> NoCErr], coros, fstate)
       IN /\ ms' = r.c.ms
          /\ log' = r.c.log
          /\ cleaned' = r.c.cleaned
          /\ coros' = r.cs
          /\ fstate' = r.st
          /\ steps' = IF fstate = "done" THEN steps ELSE steps + 1
          /\ result' = [op |-> "next", out |-> r.out, value |-> r.value]
          /\ fend' = IF fstate # "done" /\ r.st = "done"
                     THEN [how |-> IF r.out = "done" THEN "completed" ELSE "raised",
                           step |-> steps + 1, value |-> r.value, by |-> r.by]
                     ELSE fend
    /\ called' = IF fstate = "new" THEN mapInitialize(Len(members)) ELSE called
    /\ UNCHANGED <<comb, prestarted, waiters, members, schedVars, timeVars, factories>>

\* the caller calls return() on the combinator
AllCancel ==
    /\ comb = "all"
    /\ LET c == allReturn([ms |-> ms, log |-> <<>>, cleaned |-> cleaned,
                           cerr |-> NoCErr], coros, fstate)
       IN /\ ms' = c.ms
          /\ log' = Cancelled(c).log
          /\ cleaned' = c.cleaned
          /\ result' = Cancelled(c).result
          /\ fend' = IF fstate # "done" THEN Cancelled(c).fend ELSE fend
    /\ fstate' = "done"
    /\ UNCHANGED <<comb, coros, prestarted, waiters, members, steps, schedVars, timeVars,
                   facVars>>

\* ------------------------------------------------------------------ frames
\* A faulty loop test: frames yields once more than it is asked to.
framesTestInclusive(n) == n >= 0

\* while (n-- > 0): the test of frames' loop, on the value n has before the --
framesTest(n) == n > 0

\* next() on an unfinished generator frames(...) whose local n has value n
framesNext(n) ==
    [n |-> n - 1,
     out |-> IF framesTest(n) THEN "yield" ELSE "done",
     value |-> Undefined]

\* the generator of function* () { value = 1; yield* frames(n0); value = 2 },
\* not resumed yet.  age counts the ticks since it was scheduled, setAt is the
\* tick at which value = 2 ran.
NewWaiter(n0) ==
    [n0 |-> n0, n |-> n0, pos |-> "new", value |-> 0, yields |-> 0, resumes |-> 0,
     age |-> 0, setAt |-> 0, ret |-> Undefined]

\* next() on that generator: what yield* frames(n0) yields it yields, and when
\* frames is done the body goes on to its end
waiterNext(w) ==
    IF w.pos = "done" THEN [w |-> w, out |-> "done"]
    ELSE LET w1 == IF w.pos = "new" THEN [w EXCEPT !.value = 1, !.pos = "waiting"]
                   ELSE w
             r == framesNext(w1.n)
         IN IF r.out = "yield"
            THEN [w |-> [w1 EXCEPT !.n = r.n, !.yields = @ + 1, !.resumes = @ + 1],
                  out |-> "yield"]
            ELSE [w |-> [w1 EXCEPT !.n = r.n, !.resumes = @ + 1, !.value = 2,
                                    !.pos = "done", !.ret = r.value],
                  out |-> "done"]

RECURSIVE tickWaiters(_, _, _, _, _)
\* tick's loop over coroutines that leave the schedule alone, from node nd on
tickWaiters(S, W, lr, nd, sz) ==
    IF ~LoopTest(sz, nd) \/ nd = NULL THEN [s |-> S, w |-> W]
    ELSE LET c == S.coro[nd]
             r == waiterNext(W[c])
             finished == r.out = "done"
             S2 == IF finished THEN Unlink(S, lr, nd) ELSE S
         IN tickWaiters(S2, [W EXCEPT ![c] = r.w], IF finished THEN lr ELSE nd,
                        S2.link[nd], sz - 1)

\* the driver schedules a new coroutine that waits n0 frames
AddWaiter(n0) ==
    /\ pc = "idle"
    /\ schedule.nalloc < MaxNodes
    /\ schedule' = add(schedule, schedule.nalloc + 1).s
    /\ waiters' = Append(waiters, NewWaiter(n0))
    /\ UNCHANGED <<gen, pc, tickLocals, resumed, liveAtStart, tnext, last, reent, outcome,
                   validAtStart, threw, reentCalls, born, fresh, owed, repaid, hist, prevThrow>>
    /\ UNCHANGED <<comb, coros, prestarted, members, ms, fstate, log, cleaned, steps,
                   result, fend, timeVars, facVars>>

\* the driver calls schedule.tick() on a schedule of such coroutines
FramesTick ==
    /\ pc = "idle"
    /\ schedule.size > 0
    /\ LET aged == [c \in 1..Len(waiters) |->
                      IF waiters[c].pos = "done" THEN waiters[c]
                      ELSE [waiters[c] EXCEPT !.age = @ + 1]]
           r == tickWaiters(schedule, aged, NULL, schedule.front, schedule.size)
       IN /\ schedule' = r.s
          /\ waiters' = [c \in 1..Len(waiters) |->
                           IF r.w[c].value = 2 /\ waiters[c].value # 2
                           THEN [r.w[c] EXCEPT !.setAt = r.w[c].age]
                           ELSE r.w[c]]
    /\ UNCHANGED <<gen, pc, tickLocals, resumed, liveAtStart, tnext, last, reent, outcome,
                   validAtStart, threw, reentCalls, born, fresh, owed, repaid, hist, prevThrow>>
    /\ UNCHANGED <<comb, coros, prestarted, members, ms, fstate, log, cleaned, steps,
                   result, fend, timeVars, facVars>>

\* ------------------------------------------------------------------ coroutines that add
MaxT == 2

NoKid == -1

\* the generator of function* () { let t = t0; while(t--) yield; sched.add(kid) }
\* as in the test 'coroutines can schedule coroutines', not resumed yet; kid is
\* the t0 of the coroutine it adds at its end, NoKid if it adds none, and by
\* is the coroutine that added it, 0 for the driver
NewCounter(t0, kid, by) ==
    [t0 |-> t0, t |-> t0, kid |-> kid, by |-> by, pos |-> "new", resumes |-> 0]

\* while(t--): the test is on the value t has before the --
counterTest(t) == t # 0

\* next() on that generator, not finished
counterNext(w) ==
    IF counterTest(w.t)
    THEN [w |-> [w EXCEPT !.t = @ - 1, !.pos = "susp", !.resumes = @ + 1], out |-> "yield"]
    ELSE [w |-> [w EXCEPT !.t = @ - 1, !.pos = "done", !.resumes = @ + 1], out |-> "done"]

\* the nodes that the coroutines of W will still ask for
Pending(W) == Cardinality({c \in 1..Len(W) : W[c].pos # "done" /\ W[c].kid # NoKid})

\* the driver schedules a new coroutine of that kind
AddCounter(t0, kid) ==
    /\ pc = "idle"
    /\ schedule.nalloc + Pending(waiters) + (IF kid = NoKid THEN 1 ELSE 2) <= MaxNodes
    /\ schedule' = add(schedule, schedule.nalloc + 1).s
    /\ waiters' = Append(waiters, NewCounter(t0, kid, 0))
    /\ last' = [op |-> "add", arg |-> schedule.nalloc + 1, err |-> NoErr, pre |-> <<>>,
                valid |-> TRUE]
    /\ UNCHANGED <<gen, pc, tickLocals, resumed, liveAtStart, tnext, reent, outcome,
                   validAtStart, threw, reentCalls, born, fresh, owed, repaid, hist, prevThrow>>
    /\ UNCHANGED <<comb, coros, prestarted, members, ms, fstate, log, cleaned, steps,
                   result, fend, timeVars, facVars>>

\* one round of the driver's loop while(sched.size) sched.tick(): tick is called
LoopTick ==
    /\ schedule.size # 0
    /\ Tick

\* One pass of tick's loop over such coroutines: the resume, the add that the
\* coroutine makes before it returns, the unlinking of a finished entry,
\* node = node.link, and the loop test
CounterPass ==
    /\ pc = "tick"
    /\ IF node = NULL
       THEN \* node.coro raises a TypeError
            /\ pc' = "idle"
            /\ last' = [last EXCEPT !.err = TypeErr]
            /\ TickLeaves
            /\ UNCHANGED <<schedule, waiters, resumed>>
       ELSE LET c == schedule.coro[node]
                r == counterNext(waiters[c])
                finished == r.out = "done"
                adds == finished /\ r.w.kid # NoKid
                S1 == IF adds THEN add(schedule, schedule.nalloc + 1).s ELSE schedule
                S2 == IF finished THEN Unlink(S1, lastRetained, node) ELSE S1
                sz == size - 1
                nx == S2.link[node]
            IN /\ schedule' = S2
               /\ waiters' = IF adds
                             THEN Append([waiters EXCEPT ![c] = r.w],
                                         NewCounter(r.w.kid, NoKid, c))
                             ELSE [waiters EXCEPT ![c] = r.w]
               /\ resumed' = Append(resumed, node)
               /\ last' = last
               /\ IF LoopTest(sz, nx)
                  THEN /\ pc' = "tick"
                       /\ lastRetained' = IF finished THEN lastRetained ELSE node
                       /\ node' = nx
                       /\ size' = sz
                  ELSE /\ pc' = "idle"
                       /\ TickLeaves
    /\ UNCHANGED <<gen, liveAtStart, tnext, reent, outcome, validAtStart, threw,
                   reentCalls, born, fresh, owed, repaid, hist, prevThrow>>
    /\ UNCHANGED <<comb, coros, prestarted, members, ms, fstate, log, cleaned, steps,
                   result, fend, timeVars, facVars>>

\* ------------------------------------------------------------------ lib/coroutines.js
\* The Schedule of src/lib/coroutines.js.  Its add is the same code.
libAdd(S, c) == add(S, c)

\* the done branch of its tick: the entry is unlinked, and neither back nor
\* size is touched
libUnlink(S, lr, n) ==
    IF lr # NULL THEN [S EXCEPT !.link[lr] = S.link[n]]
    ELSE [S EXCEPT !.front = S.link[n]]

RECURSIVE libTick(_, _, _, _, _, _, _)
\* its tick, from node nd on, over coroutines that leave the schedule alone:
\* outs[n] is what the resume of node n's coroutine does, removed and res are
\* the entries counted as removed and resumed so far.  this.size -= removed
\* comes after the loop: an error leaves tick before it.
libTick(S, outs, lr, nd, sz, removed, res) ==
    IF sz = 0
    THEN [s |-> [S EXCEPT !.size = S.size - removed], err |-> NoErr, resumed |-> res]
    ELSE IF nd = NULL
    THEN [s |-> S, err |-> TypeErr, resumed |-> res]       \* node.coro, node is null
    ELSE IF outs[nd] = "throw"
    THEN [s |-> S, err |-> Thrown(S.coro[nd]), resumed |-> Append(res, nd)]
    ELSE LET finished == outs[nd] = "done"
         IN libTick(IF finished THEN libUnlink(S, lr, nd) ELSE S, outs,
                    IF finished THEN lr ELSE nd, S.link[nd], sz - 1,
                    IF finished THEN removed + 1 ELSE removed, Append(res, nd))

\* the driver calls add with a new generator
LibAdd ==
    /\ pc = "idle"
    /\ schedule.nalloc < MaxNodes
    /\ LET c == schedule.nalloc + 1
           r == libAdd(schedule, c)
       IN /\ schedule' = r.s
          /\ last' = [op |-> "add", arg |-> c, err |-> r.err, pre |-> <<>>,
                      valid |-> TRUE]
    /\ resumed' = <<>>
    /\ liveAtStart' = <<>>
    /\ UNCHANGED <<gen, pc, tickLocals, tnext, reent, outcome, validAtStart, threw,
                   reentCalls, born, fresh, owed, repaid, hist, prevThrow>>
    /\ UNCHANGED combVars

\* the driver calls tick
LibTick ==
    /\ pc = "idle"
    /\ \E outs \in [Nodes -> {"yield", "done", "throw"}] :
          /\ \A n \in Nodes : (n > schedule.nalloc \/ gen[schedule.coro[n]] = "done")
                                  => outs[n] = "done"
          /\ LET r == libTick(schedule, outs, NULL, schedule.front, schedule.size, 0, <<>>)
             IN /\ schedule' = r.s
                /\ resumed' = r.resumed
                /\ gen' = [c \in Coros |->
                             IF \E n \in Range(r.resumed) :
                                    schedule.coro[n] = c /\ outs[n] # "yield"
                             THEN "done" ELSE gen[c]]
                /\ last' = [op |-> "tick", arg |-> 0, err |-> r.err, pre |-> <<>>,
                            valid |-> TRUE]
    /\ liveAtStart' = Chain(schedule)
    /\ UNCHANGED <<pc, tickLocals, tnext, reent, outcome, validAtStart, threw,
                   reentCalls, born, fresh, owed, repaid, hist, prevThrow>>
    /\ UNCHANGED combVars

\* first or all has been called with generators some of which had been
\* resumed before and are suspended at a yield (k counts the resumes a member
\* still needs to finish)
StartedInit ==
    /\ SchedInit
    /\ comb \in {"first", "all"}
    /\ coros = IF comb = "all" THEN [i \in 1..NMembers |-> i] ELSE <<>>
    /\ prestarted \in SUBSET (1..NMembers)
    /\ waiters = <<>>
    /\ TimeIdle
    /\ FacIdle
    /\ members \in MemberLists
    /\ ms = [m \in 1..NMembers |->
                [state |-> IF m \in prestarted THEN "susp" ELSE "new", cnt |-> 0]]
    /\ fstate = "new"
    /\ log = <<>>
    /\ cleaned = NewMembers.cleaned
    /\ steps = 0
    /\ result = [op |-> "none", out |-> "none", value |-> Undefined]
    /\ fend = [how |-> "no", step |-> 0, value |-> Undefined, by |-> 0]

\* first or all has been called with new generators, one of which has a
\* finally block that throws
RaisingInit ==
    /\ SchedInit
    /\ comb \in {"first", "all"}
    /\ coros = IF comb = "all" THEN [i \in 1..NMembers |-> i] ELSE <<>>
    /\ prestarted = {}
    /\ waiters = <<>>
    /\ TimeIdle
    /\ FacIdle
    /\ \E b \in 1..NMembers, sh \in RaisingShapes, f \in [1..NMembers -> PlainShapes] :
          /\ members = [f EXCEPT ![b] = sh]
          /\ Cardinality({m \in 1..NMembers : members[m].ending = "throw"}) <= 1
    /\ ms = NewMembers.ms
    /\ fstate = "new"
    /\ log = <<>>
    /\ cleaned = NewMembers.cleaned
    /\ steps = 0
    /\ result = [op |-> "none", out |-> "none", value |-> Undefined]
    /\ fend = [how |-> "no", step |-> 0, value |-> Undefined, by |-> 0]

\* first or all has been called with some generators and some factories; the
\* members have no finally blocks and return
FactoryInit ==
    /\ SchedInit
    /\ comb \in {"first", "all"}
    /\ coros = IF comb = "all" THEN [i \in 1..NMembers |-> i] ELSE <<>>
    /\ prestarted = {}
    /\ waiters = <<>>
    /\ TimeIdle
    /\ factories \in SUBSET (1..NMembers)
    /\ called = <<>>
    /\ members \in [1..NMembers -> {sh \in MemberShapes : /\ sh.cleanup = "ok"
                                                           /\ sh.depth = 0
                                                           /\ sh.ending = "return"}]
    /\ ms = [m \in 1..NMembers |->
                [state |-> IF m \in factories THEN "unmade" ELSE "new", cnt |-> 0]]
    /\ fstate = "new"
    /\ log = <<>>
    /\ cleaned = NewMembers.cleaned
    /\ steps = 0
    /\ result = [op |-> "none", out |-> "none", value |-> Undefined]
    /\ fend = [how |-> "no", step |-> 0, value |-> Undefined, by |-> 0]

\* first or all has been called with no argument or with one new generator
FewInit ==
    /\ SchedInit
    /\ comb \in {"first", "all"}
    /\ prestarted = {}
    /\ waiters = <<>>
    /\ TimeIdle
    /\ FacIdle
    /\ \E n \in {0, 1} : members \in [1..n -> PlainShapes]
    /\ coros = IF comb = "all" THEN [i \in 1..Len(members) |-> i] ELSE <<>>
    /\ ms = [m \in 1..Len(members) |-> [state |-> "new", cnt |-> 0]]
    /\ fstate = "new"
    /\ log = <<>>
    /\ cleaned = [m \in 1..Len(members) |-> <<>>]
    /\ steps = 0
    /\ result = [op |-> "none", out |-> "none", value |-> Undefined]
    /\ fend = [how |-> "no", step |-> 0, value |-> Undefined, by |-> 0]

\* ------------------------------------------------------------------ seconds
\* setClock(c): _clock = c.  The generator of seconds is not touched; setDuring
\* records that the clock was replaced after the generator took its start.
SetClock(c) ==
    /\ clock' = c
    /\ timer' = [timer EXCEPT !.setDuring = @ \/ (timer.pos = "susp" /\ c # clock)]
    /\ UNCHANGED now
    /\ UNCHANGED <<schedVars, comb, coros, prestarted, members, ms, fstate, log, cleaned,
                   steps, result, fend, waiters, facVars>>

\* time passes: the clock function f returns one more from now on (a
\* non-decreasing clock with integer values)
Advance(f) ==
    /\ now[f] < MaxTime
    /\ now' = [now EXCEPT ![f] = @ + 1]
    /\ UNCHANGED <<clock, timer>>
    /\ UNCHANGED <<schedVars, comb, coros, prestarted, members, ms, fstate, log, cleaned,
                   steps, result, fend, waiters, facVars>>

\* the clock parameter of seconds(s, clock = _clock): the default is evaluated
\* when seconds is called, and the parameter is a binding of that call
clockParam(arg, cur) == IF arg = "default" THEN cur ELSE arg

\* seconds(s) or seconds(s, c) is called: a new generator, none of its body run
Seconds(s, arg) ==
    /\ timer.pos \in {"none", "done"}
    /\ timer' = [pos |-> "new", s |-> s, fn |-> clockParam(arg, clock),
                 dflt |-> (arg = "default"), start |-> Undefined0, samples |-> 0,
                 read |-> "none", at |-> Undefined0, op |-> "seconds",
                 made |-> now[clockParam(arg, clock)], setDuring |-> FALSE]
    /\ UNCHANGED <<clock, now>>
    /\ UNCHANGED <<schedVars, comb, coros, prestarted, members, ms, fstate, log, cleaned,
                   steps, result, fend, waiters, facVars>>

\* the function that a clock() in the body of w calls while cur is _clock
checkClockLive(w, cur) == IF w.dflt THEN cur ELSE w.fn

checkClock(w, cur) == w.fn

\* the loop test clock() - startTime < s
secondsTestLeq(t, startTime, s) == t - startTime <= s

secondsTest(t, startTime, s) == t - startTime < s

\* next() on the generator of seconds: the first one runs let startTime =
\* clock() and then the loop test, a later one the loop test only; d is the
\* time that passes on the clock between the two reads of a first resume.
\* The generator yields if the test holds and returns if not.
SecondsResume(d) ==
    /\ timer.pos \in {"new", "susp"}
    /\ LET f == checkClock(timer, clock)
           first == timer.pos = "new"
           st == IF first THEN now[f] ELSE timer.start
           t == IF first THEN now[f] + d ELSE now[f]
       IN /\ first \/ d = 0
          /\ t <= MaxTime
          /\ now' = [now EXCEPT ![f] = t]
          /\ timer' = [timer EXCEPT !.pos = IF secondsTest(t, st, timer.s)
                                            THEN "susp" ELSE "done",
                                    !.start = st,
                                    !.samples = IF first THEN @ + 1 ELSE @,
                                    !.read = f,
                                    !.at = t,
                                    !.op = "next"]
    /\ UNCHANGED clock
    /\ UNCHANGED <<schedVars, comb, coros, prestarted, members, ms, fstate, log, cleaned,
                   steps, result, fend, waiters, facVars>>

\* ------------------------------------------------------------------ specifications
Init == SchedInit /\ CombIdle

Driver ==
    \/ \E c \in Addable(schedule) : Add(c)
    \/ \E c \in Removable(schedule) : Remove(c)
    \/ RemoveAll
    \/ Tick

\* The schedule driven from outside, its coroutines adding coroutines.
Next == Driver \/ TickIter

Spec == Init /\ [][Next]_vars

\* The same, the coroutines also calling remove and removeAll on their schedule.
NextReentrant == Driver \/ TickIterReentrant

ReentrantSpec == Init /\ [][NextReentrant]_vars

\* A combinator first(...) resumed and cancelled by its caller.
FirstNextStep == FirstResume \/ FirstCancel

FirstSpec == FirstInit /\ [][FirstNextStep]_vars

\* A combinator all(...) resumed and cancelled by its caller.
AllNextStep == AllResume \/ AllCancel

AllSpec == AllInit /\ [][AllNextStep]_vars

\* Either combinator, resumed and cancelled by its caller.
CombInit == FirstInit \/ AllInit

CombNextStep == FirstNextStep \/ AllNextStep

CombSpec == CombInit /\ [][CombNextStep]_vars

\* Either combinator, given generators that may have been resumed before.
StartedSpec == StartedInit /\ [][CombNextStep]_vars

\* The Schedule of src/lib/coroutines.js, driven by add and tick.
LibNext == LibAdd \/ LibTick

LibSpec == Init /\ [][LibNext]_vars

\* A schedule of coroutines that wait with frames, ticked by its driver.
FramesNext == (\E n0 \in -1..MaxFrames : AddWaiter(n0)) \/ FramesTick

FramesSpec == Init /\ [][FramesNext]_vars

\* first and all over members of which one has a cleanup that throws
RaisingSpec == RaisingInit /\ [][CombNextStep]_vars

\* first and all over no member or one
FewSpec == FewInit /\ [][CombNextStep]_vars

\* first and all over generators and factories
FactorySpec == FactoryInit /\ [][CombNextStep]_vars

\* a driver that adds coroutines and keeps calling tick while size is not zero
LiveNext ==
    \/ \E t0 \in 0..MaxT, kid \in {NoKid} \cup 0..MaxT : AddCounter(t0, kid)
    \/ LoopTick
    \/ CounterPass

\* the driver's loop goes on, and so does a tick that has begun
LiveSpec == Init /\ [][LiveNext]_vars /\ WF_vars(LoopTick) /\ WF_vars(CounterPass)

\* seconds and setClock: waits of -1 .. MaxTime seconds on either clock
SecondsNext ==
    \/ \E c \in Clocks : SetClock(c)
    \/ \E f \in Clocks : Advance(f)
    \/ \E s \in -1..MaxTime, arg \in Clocks \cup {"default"} : Seconds(s, arg)
    \/ \E d \in 0..1 : SecondsResume(d)

SecondsSpec == Init /\ [][SecondsNext]_vars

\* ================================================================= claims
IsPrefix(s, q) == Len(s) <= Len(q) /\ s = SubSeq(q, 1, Len(s))

Ascending(s) == \A i, j \in 1..Len(s) : i < j => s[i] < s[j]

NoDuplicates(s) == \A i, j \in 1..Len(s) : i # j => s[i] # s[j]

\* the last call was a tick and it returned
TickReturned == pc = "idle" /\ last.op = "tick" /\ last.err.kind = "none"

\* the last call was a tick and it ended with an error
TickThrew == pc = "idle" /\ last.op = "tick" /\ last.err.kind # "none"

\* the entries of the last tick that a resume reported done
DoneInTick == {resumed[i] : i \in {k \in 1..Len(resumed) : outcome[k].r = "done"}}

\* the entries that were live when the tick began and did not report done
Retained ==
    LET keep(n) == n \notin DoneInTick
    IN SelectSeq(liveAtStart, keep)

\* the entries add() created since the tick began
BornInTick == [i \in 1..(schedule.nalloc - tnext) |-> tnext + i]

\* the entries that were live when the tick began and were not resumed
Unreached == Range(liveAtStart) \ Range(resumed)

\* C1: (coroutines that leave the list alone or add to it) the entries
\* reachable from front when tick is called are in registration order, the
\* tick resumes them in that order, never one twice or out of turn, and a tick
\* that returns has resumed every one of them.
C1_TickFifo ==
    /\ last.op = "tick" => IsPrefix(resumed, liveAtStart) /\ Ascending(liveAtStart)
    /\ TickReturned => resumed = liveAtStart

\* a tick over three entries has returned, one of them having finished
C1_Witness ==
    /\ TickReturned
    /\ Len(resumed) >= 3
    /\ DoneInTick # {}
    /\ DoneInTick # Range(resumed)

\* C2: an entry that add() creates while a tick is running is not resumed by
\* that tick, and a later tick that returns has resumed every entry created
\* during an earlier tick (and not removed by the driver since).
C2_AddedRunsNextTick ==
    /\ last.op = "tick" => \A i \in 1..Len(resumed) : resumed[i] <= tnext
    /\ TickReturned => \A n \in fresh : n > tnext

\* a tick has returned that resumed an entry created during an earlier tick
\* and that itself saw a coroutine add an entry
C2_Witness ==
    /\ TickReturned
    /\ \E i \in 1..Len(resumed) : resumed[i] \in born
    /\ \E n \in fresh : n > tnext

\* C3: whenever the driver has control and no tick has thrown, size is the
\* number of reachable entries and back is the last of them (null if none).
C3_Claim == (pc = "idle" /\ ~threw) => validState(schedule)

\* C4: when a tick that began in a valid state ends with an error, the state
\* is valid: the list is the entries that were live at the start without those
\* that reported done, followed by the entries added during the tick.
C4_ValidAfterThrow ==
    (TickThrew /\ validAtStart) =>
        /\ validState(schedule)
        /\ Chain(schedule) = Retained \o BornInTick

\* a tick has thrown at its third entry or later, after one entry finished
\* and another yielded
C4_Witness ==
    /\ TickThrew
    /\ validAtStart
    /\ Len(resumed) >= 3
    /\ \E i, j \in 1..(Len(resumed) - 1) : outcome[i].r = "done" /\ outcome[j].r = "yield"

\* C5: an error raised by a resume ends the tick at once with that very
\* error: the erroring entry is the last one resumed, the entries after it
\* stay in the list, and the next tick that returns has resumed them.
C5_ErrorPropagates ==
    /\ last.op = "tick" =>
          \A i \in 1..Len(resumed) :
              outcome[i].r = "throw" =>
                  /\ i = Len(resumed)
                  /\ pc = "idle"
                  /\ last.err = outcome[i].err
                  /\ (last.err.kind = "thrown" => last.err.by = schedule.coro[resumed[i]])
    /\ TickThrew =>
          /\ Len(resumed) >= 1
          /\ outcome[Len(resumed)].r = "throw"
          /\ IsPrefix(resumed, liveAtStart)
          /\ Unreached \subseteq Range(Chain(schedule))
          /\ Unreached \subseteq owed
    /\ TickReturned => owed = {}

\* a tick has returned that resumed entries which the tick before, ending
\* with an error, had not reached
C5_Witness == TickReturned /\ threw /\ repaid # {}

\* a tick has thrown before reaching some of its entries
C5_WitnessThrow == TickThrew /\ Unreached # {}

\* C6: a tick during which coroutines called remove() on entries of the
\* schedule (each such call returning) finishes without an error, leaves the
\* removed handles unscheduled and leaves size, front and back consistent.
\* Taken for ticks that begin in a valid state without duplicate handles, in
\* which no coroutine throws and none adds.
C6_Claim ==
    (/\ last.op = "tick"
     /\ pc # "tick"
     /\ validAtStart
     /\ NoDuplicates([i \in 1..Len(liveAtStart) |-> schedule.coro[liveAtStart[i]]])
     /\ schedule.nalloc = tnext
     /\ reentCalls # {}
     /\ \A k \in reentCalls : k.op = "remove" /\ k.present /\ k.ok
     /\ \A i \in 1..Len(resumed) : outcome[i].err.kind # "thrown")
    => /\ pc = "idle"
       /\ last.err.kind = "none"
       /\ validState(schedule)
       /\ schedule.size >= 0
       /\ \A k \in reentCalls : k.c \notin Range(ChainCoros(schedule))

\* the first occurrence of c taken out of s
RECURSIVE Without(_, _)
Without(s, c) ==
    IF s = <<>> THEN <<>>
    ELSE IF Head(s) = c THEN Tail(s)
    ELSE <<Head(s)>> \o Without(Tail(s), c)

\* C7: remove() of a handle that is not in the schedule returns without an
\* error and changes nothing.
C7_Claim ==
    (last.op = "remove" /\ last.arg \notin Range(last.pre)) =>
        /\ pc = "idle"
        /\ last.err.kind = "none"
        /\ ChainCoros(schedule) = last.pre

\* C8: remove() of a handle that is in the schedule (a valid one, holding no
\* handle twice) returns, having unlinked exactly that entry.
C8_Claim ==
    (/\ last.op = "remove"
     /\ last.arg \in Range(last.pre)
     /\ last.valid
     /\ NoDuplicates(last.pre))
    => /\ pc = "idle"
       /\ last.err.kind = "none"
       /\ ChainCoros(schedule) = Without(last.pre, last.arg)
       /\ schedule.size = Len(last.pre) - 1
       /\ validState(schedule)

\* the call that has just returned is the one in which first delivered a value
Delivered == fend.how = "completed" /\ log # <<>> /\ log[Len(log)].e = "deliver"

\* the members named by the events of kind e in the last call, in order
EventMembers(e) ==
    LET is(x) == x.e = e
        evs == SelectSeq(log, is)
    IN [i \in 1..Len(evs) |-> evs[i].m]

\* the members in declared order, w left out
OthersInOrder(w) ==
    LET other(m) == m # w
    IN SelectSeq([i \in 1..NMembers |-> i], other)

\* the events of member m in the last call, from its forced return on
FromReturn(m) ==
    LET at == CHOOSE i \in 1..Len(log) : log[i] = Ev("return", m, 0)
        rest == SubSeq(log, at + 1, Len(log))
        mine(x) == x.m = m /\ x.e # "deliver"
    IN SelectSeq(rest, mine)

\* member m, not the winner, was suspended inside its try/finally when the
\* combinator ended
PendingAtEnd(m) ==
    /\ m # fend.by
    /\ members[m].depth > 0
    /\ ms[m].cnt >= 1
    /\ ms[m].cnt < members[m].k

\* C9: in the call in which a member of first completes, every other member
\* is force-returned once, in declared order; a member suspended inside its
\* try/finally runs its cleanup at its forced return, once in all; and the
\* winner's value is delivered last, after all of this, in that same call.
C9_FirstCancelsInOrder ==
    Delivered =>
        LET w == fend.by
            rets == EventMembers("return")
            other(m) == m # w
        IN /\ Ev("next", w, 0) \in Range(log)
           /\ SelectSeq(rets, other) = OthersInOrder(w)
           /\ \A m \in 1..NMembers :
                 PendingAtEnd(m) =>
                     /\ FromReturn(m) = Cleanup(m)
                     /\ cleaned[m] = Levels(m)
           /\ \A i \in 1..(Len(log) - 1) : log[i].e # "deliver"
           /\ log[Len(log)] = Ev("deliver", w, 0)
           /\ result = [op |-> "next", out |-> "done", value |-> Val(w)]

\* the second member has won at a second or later step while the first and
\* the third were suspended inside their try/finally
C9_Witness ==
    /\ Delivered
    /\ fend.by = 2
    /\ fend.step >= 2
    /\ PendingAtEnd(1)
    /\ PendingAtEnd(3)

\* the smallest number of resumes any member needs to finish
MinK == CHOOSE k \in 1..MaxK :
            /\ \E m \in 1..NMembers : members[m].k = k
            /\ \A m \in 1..NMembers : members[m].k >= k

\* the first member in declared order that finishes at its MinK-th resume
Earliest == CHOOSE m \in 1..NMembers :
                /\ members[m].k = MinK
                /\ \A j \in 1..(m - 1) : members[j].k # MinK

\* C10: first completes at the first step at which a member finishes, with
\* the value of the member earliest in declared order among those that
\* finish at that step; until that step it has not ended unless cancelled.
C10_FirstWinner ==
    /\ fend.how = "completed" =>
          /\ fend.step = MinK
          /\ fend.by = Earliest
          /\ fend.value = Val(Earliest)
    /\ fend.how = "no" => steps < MinK
    /\ (steps >= MinK /\ fend.how # "cancelled" /\ members[Earliest].ending = "return")
          => fend.how = "completed"
    /\ Delivered => (result.out = "done" /\ result.value = Val(Earliest))

\* first has completed at a second or later step at which a later member
\* would have finished too
C10_Witness ==
    /\ Delivered
    /\ fend.step >= 2
    /\ fend.by >= 2
    /\ \E m \in (fend.by + 1)..NMembers :
          members[m].k = MinK /\ members[m].ending = "return"

\* the members in declared order, up to member n
UpTo(n) == [i \in 1..n |-> i]

\* the call that has just returned ran first's body, which yielded
FirstYielded == result.op = "next" /\ result.out = "yield" /\ log # <<>>

\* C11: a step of first that yields has resumed every member once, in
\* declared order; the step in which a member completes has resumed the
\* members up to and including that one, once each and in declared order, and
\* none after it, so that each of those has had one resume less.
C11_FirstResumesInOrder ==
    /\ FirstYielded =>
          /\ EventMembers("next") = UpTo(NMembers)
          /\ \A m \in 1..NMembers : ms[m].cnt = steps
    /\ Delivered =>
          /\ EventMembers("next") = UpTo(fend.by)
          /\ \A m \in 1..fend.by : ms[m].cnt = fend.step
          /\ \A m \in (fend.by + 1)..NMembers : ms[m].cnt = fend.step - 1

\* the second member has completed at a second or later step, the third
\* member having had one resume less than it
C11_Witness ==
    /\ Delivered
    /\ fend.by = 2
    /\ fend.step >= 2
    /\ ms[3].cnt = fend.step - 1
    /\ ms[3].state = "done"

\* the call that has just returned is the one in which a member of first threw
Raised == fend.how = "raised" /\ log # <<>> /\ log[Len(log)].e = "raise"

\* C12: in the call in which the resume of a member raises an error, first
\* force-returns every member once, in declared order; a member suspended
\* inside its try/finally runs its cleanup at its forced return, once in all;
\* then the error of that member, and no value, reaches the caller.
C12_FirstErrorAfterCleanup ==
    Raised =>
        LET w == fend.by
        IN /\ members[w].ending = "throw"
           /\ ms[w].cnt = members[w].k
           /\ EventMembers("next") = UpTo(w)
           /\ EventMembers("return") = UpTo(NMembers)
           /\ \A m \in 1..NMembers :
                 PendingAtEnd(m) =>
                     /\ FromReturn(m) = Cleanup(m)
                     /\ cleaned[m] = Levels(m)
           /\ \A i \in 1..(Len(log) - 1) : log[i].e \notin {"deliver", "raise"}
           /\ log[Len(log)] = Ev("raise", w, 0)
           /\ result = [op |-> "next", out |-> "throw", value |-> Undefined]

\* the second member has thrown at a second or later step while the first and
\* the third were suspended inside their try/finally
C12_Witness ==
    /\ Raised
    /\ fend.by = 2
    /\ fend.step >= 2
    /\ PendingAtEnd(1)
    /\ PendingAtEnd(3)

\* C13: once the caller has force-returned first before any member finished,
\* every member has been force-returned (it is finished), in declared order
\* and once each, and every member that was suspended inside its try/finally
\* has run its cleanup once.
C13_Claim ==
    fend.how = "cancelled" =>
        /\ \A m \in 1..NMembers : ms[m].state = "done"
        /\ \A m \in 1..NMembers : PendingAtEnd(m) => cleaned[m] = Levels(m)
        /\ (result.op = "return" /\ log # <<>>) =>
              EventMembers("return") = UpTo(NMembers)

\* the largest number of resumes any member needs to finish
MaxKAll == CHOOSE k \in 1..MaxK :
               /\ \E m \in 1..NMembers : members[m].k = k
               /\ \A m \in 1..NMembers : members[m].k <= k

\* the members that have not finished before step j, in declared order
OutstandingAt(j) ==
    LET open(m) == members[m].k >= j
    IN SelectSeq(UpTo(NMembers), open)

\* the call that has just returned is the one in which all completed
AllCompleted == fend.how = "completed" /\ log # <<>> /\ log[Len(log)].e = "complete"

\* C14: a step of all in which no member throws resumes the members that had
\* not finished before it, once each, in declared order, and no other; the
\* array then holds the members that have still not finished; all yields as
\* long as some member has not finished and completes, without a value, at
\* the step at which the last member finishes, not earlier.
C14_AllRoundRobin ==
    /\ (result.op = "next" /\ log # <<>> /\ result.out # "throw") =>
          /\ EventMembers("next") = OutstandingAt(steps)
          /\ Range(coros) = Range(OutstandingAt(steps + 1))
          /\ Len(coros) = Len(OutstandingAt(steps + 1))
          /\ result.out = "yield" <=> (\E m \in 1..NMembers : members[m].k > steps)
          /\ result.out = "done" <=> steps = MaxKAll
          /\ result.value = Undefined
    /\ \A m \in 1..NMembers : ms[m].cnt <= members[m].k
    /\ fend.how = "completed" => fend.step = MaxKAll
    /\ fend.how = "no" => steps < MaxKAll
    /\ fstate = "susp" => steps < MaxKAll

\* all has completed at the third step or later, the second member having
\* finished before the first, and the first before the third
C14_Witness ==
    /\ AllCompleted
    /\ fend.step >= 3
    /\ members[2].k < members[1].k
    /\ members[1].k < members[3].k
    /\ EventMembers("next") = <<3>>

\* the members all's array held when all ended, in declared order
OutstandingAtEnd ==
    LET held(m) == m \in Range(coros)
    IN SelectSeq(UpTo(NMembers), held)

\* C15: once all has been force-returned by its caller, or has ended with the
\* error of a member, every member it still held is finished, and each that
\* was suspended inside its try/finally has run its cleanup; in the call that
\* raises, the forced returns come before the error, which is the member's.
C15_Claim ==
    /\ fend.how \in {"cancelled", "raised"} =>
          \A m \in Range(coros) :
              /\ ms[m].state = "done"
              /\ PendingAtEnd(m) => cleaned[m] = Levels(m)
    /\ Raised =>
          /\ Range(EventMembers("return")) = Range(coros)
          /\ \A i \in 1..(Len(log) - 1) : log[i].e # "raise"
          /\ log[Len(log)] = Ev("raise", fend.by, 0)
          /\ members[fend.by].ending = "throw"
          /\ result = [op |-> "next", out |-> "throw", value |-> Undefined]

\* the call that has just returned ran all's finally block over members
AllReturnPass ==
    /\ comb = "all"
    /\ result.op = "return" \/ result.out = "throw"
    /\ EventMembers("return") # <<>>

\* the place in the last call's log of member m's first event of kind e
At(e, m) == CHOOSE i \in 1..Len(log) :
                /\ log[i].e = e /\ log[i].m = m
                /\ \A j \in 1..(i - 1) : ~(log[j].e = e /\ log[j].m = m)

\* C16: the forced returns of all are made in declared order over the
\* members it still holds: of two such members suspended inside their
\* try/finally, the one declared first is returned, and cleans up, first.
C16_Claim ==
    AllReturnPass =>
        /\ EventMembers("return") = OutstandingAtEnd
        /\ \A a, b \in Range(coros) :
              (a < b /\ PendingAtEnd(a) /\ PendingAtEnd(b)) =>
                  /\ At("return", a) < At("return", b)
                  /\ At("cleanup", a) < At("cleanup", b)

\* member m's yields sit inside a try/finally and it has been resumed, by
\* the combinator or before the combinator got it
HadCleanupPending(m) ==
    members[m].depth > 0 /\ (ms[m].cnt >= 1 \/ m \in prestarted)

\* C17: (first or all) no finally block of a member ever runs twice, and
\* once the combinator has ended, by completing, by being force-returned or
\* by a member's error, every member that had been resumed inside its
\* try/finally has run each of its finally blocks once.
C17_Claim ==
    /\ \A m \in 1..NMembers : IsPrefix(cleaned[m], Levels(m))
    /\ fstate = "done" =>
          \A m \in 1..NMembers : HadCleanupPending(m) => cleaned[m] = Levels(m)

\* C18: return() on a combinator (first or all) that has ended, by an
\* earlier return(), by completing or by a member's error, resumes no member,
\* force-returns none, runs no cleanup and leaves the combinator as it was.
C18_ReturnIdempotent ==
    [][(fstate = "done" /\ result'.op = "return") =>
          /\ log' = <<>>
          /\ ms' = ms
          /\ cleaned' = cleaned
          /\ coros' = coros
          /\ fstate' = "done"
          /\ steps' = steps
          /\ fend' = fend]_vars

\* first has been force-returned after it had ended with a member's error,
\* its other members having cleaned up
C18_Witness ==
    /\ comb = "first"
    /\ fend.how = "raised"
    /\ result.op = "return"
    /\ \E m \in 1..NMembers : PendingAtEnd(m)

\* how often event x is in the last call's log
Times(x) ==
    LET is(y) == y = x
    IN Len(SelectSeq(log, is))

\* C19: in the call in which a member of first or all completes or throws,
\* another member that is suspended in an inner generator it delegates to,
\* both with a try/finally, runs the inner finally block, then the outer one,
\* each once, and both before the result or the error reaches the caller.
C19_InnerBeforeOuter ==
    (Delivered \/ Raised) =>
        \A m \in 1..NMembers :
            (PendingAtEnd(m) /\ members[m].depth = 2) =>
                /\ Times(Ev("cleanup", m, 2)) = 1
                /\ Times(Ev("cleanup", m, 1)) = 1
                /\ At("return", m) < At("cleanup", m)
                /\ \E i, j \in 1..(Len(log) - 1) :
                      /\ i < j
                      /\ log[i] = Ev("cleanup", m, 2)
                      /\ log[j] = Ev("cleanup", m, 1)
                /\ cleaned[m] = <<2, 1>>

\* a member of all has thrown while two others were suspended in inner
\* generators, both levels with a try/finally
C19_Witness ==
    /\ Raised
    /\ comb = "all"
    /\ \E a, b \in 1..NMembers :
          /\ a # b
          /\ PendingAtEnd(a) /\ members[a].depth = 2
          /\ PendingAtEnd(b) /\ members[b].depth = 2

\* the number of yields frames(n0) is to make
Wait(n0) == IF n0 > 0 THEN n0 ELSE 0

\* C20: frames(n) yields n times (not at all when n <= 0) and then completes
\* without a value; so a scheduled coroutine that sets value to 1, waits with
\* yield* frames(n) and sets value to 2 has value 1 from the first tick after
\* it was scheduled, makes the second assignment during tick number n + 1
\* (the 5th for frames(4), the first when n <= 0), and not before.
C20_FramesWaitsNTicks ==
    \A c \in 1..Len(waiters) :
        LET w == waiters[c]
        IN /\ w.yields <= Wait(w.n0)
           /\ w.pos = "done" =>
                 /\ w.yields = Wait(w.n0)
                 /\ w.resumes = Wait(w.n0) + 1
                 /\ w.ret = Undefined
                 /\ w.value = 2
                 /\ w.setAt = Wait(w.n0) + 1
                 /\ c \notin Range(ChainCoros(schedule))
           /\ w.pos # "done" =>
                 /\ w.age <= Wait(w.n0)
                 /\ w.yields = w.age
                 /\ w.value = (IF w.age = 0 THEN 0 ELSE 1)
                 /\ c \in Range(ChainCoros(schedule))

\* a coroutine waiting with frames(4) has made its second assignment, at its
\* fifth tick, and one with n <= 0 at its first
C20_Witness ==
    /\ \E c \in 1..Len(waiters) :
          waiters[c].n0 = 4 /\ waiters[c].value = 2 /\ waiters[c].setAt = 5
    /\ \E c \in 1..Len(waiters) :
          waiters[c].n0 <= 0 /\ waiters[c].value = 2 /\ waiters[c].setAt = 1

\* the step is a call of op by the driver: last names the driver's last call,
\* and only a call made while the driver has control can leave op there
DriverCalls(op) == pc = "idle" /\ last'.op = op

C24_RemoveLeavesGenerators ==
    [][(DriverCalls("remove") \/ DriverCalls("removeAll")) => gen' = gen]_vars

\* remove has unlinked an unfinished generator, and removeAll has then been
\* called or the entry was the only one
C24_Witness ==
    /\ last.op = "remove"
    /\ last.err.kind = "none"
    /\ pc = "idle"
    /\ last.arg \in Range(last.pre)
    /\ last.arg \notin Range(ChainCoros(schedule))
    /\ gen[last.arg] = "susp"

\* C26: no generator is held by two reachable entries.
C26_Claim == NoDuplicates(ChainCoros(schedule))

\* the nodes add() has created in this step
Created == (schedule.nalloc + 1)..schedule'.nalloc

\* C28: (coroutines that leave the list alone or add to it) when a tick has
\* returned, the entries whose resume reported done are unlinked, wherever
\* they sat, and the list is the other entries in their registration order,
\* followed by those added meanwhile, size counting them; and no step ever
\* links an entry in again: once unlinked, it is not resumed by a later tick.
C28_DoneUnlinked ==
    /\ [](TickReturned =>
            /\ DoneInTick \cap Range(Chain(schedule)) = {}
            /\ Chain(schedule) = Retained \o BornInTick
            /\ Ascending(Chain(schedule))
            /\ validAtStart => validState(schedule))
    /\ [][Range(Chain(schedule')) \subseteq Range(Chain(schedule)) \cup Created]_vars

\* a tick over three entries has returned in which the first and the last
\* reported done and the middle one did not
C28_Witness ==
    /\ TickReturned
    /\ Len(resumed) = 3
    /\ outcome[1].r = "done"
    /\ outcome[2].r = "yield"
    /\ outcome[3].r = "done"
    /\ Chain(schedule) = <<resumed[2]>>

\* C25: when the driver has called removeAll, the schedule is empty (size 0,
\* front and back null); a tick then resumes nothing and returns; and after
\* one add, the next tick resumes the added coroutine and nothing else.
C25_RemoveAllEmpties ==
    /\ last.op = "removeAll" =>
          /\ schedule.size = 0
          /\ schedule.front = NULL
          /\ schedule.back = NULL
          /\ pc = "idle"
          /\ last.err.kind = "none"
    /\ (last.op = "tick" /\ hist = "cleared") =>
          /\ TickReturned
          /\ resumed = <<>>
          /\ Chain(schedule) = <<>>
          /\ schedule.size = 0
    /\ (last.op = "add" /\ hist = "added") =>
          /\ last.err.kind = "none"
          /\ ChainCoros(schedule) = <<last.arg>>
          /\ validState(schedule)
    /\ (last.op = "tick" /\ hist = "added") =>
          /\ liveAtStart = <<tnext>>
          /\ pc = "idle" => resumed = <<tnext>>
          /\ pc = "tick" => (resumed = <<>> /\ node = tnext)

\* removeAll has emptied a schedule of two entries, a tick has run, a
\* coroutine has been added and the tick after that has resumed it
C25_Witness ==
    /\ schedule.nalloc = 3
    /\ hist = "added"
    /\ TickReturned
    /\ resumed = <<3>>

\* C27: (the Schedule of src/lib/coroutines.js, driven by add and tick) every
\* coroutine that was added and has not finished is reachable from front;
\* after add, back is the new entry and the last reachable one; and every
\* tick that none of its coroutines makes throw resumes all the reachable
\* entries and returns without an error.
C27_Claim ==
    /\ \A n \in 1..schedule.nalloc :
          gen[schedule.coro[n]] = "susp" => n \in Range(Chain(schedule))
    /\ last.op = "add" =>
          /\ last.err.kind = "none"
          /\ schedule.back = schedule.nalloc
          /\ actualBack(schedule) = schedule.back
    /\ last.op = "tick" =>
          /\ last.err.kind # "TypeError"
          /\ last.err.kind = "none" => resumed = liveAtStart

\* a step that is a call of next() on the generator of seconds
SecondsResumed ==
    /\ timer.pos \in {"new", "susp"}
    /\ timer'.op = "next"
    /\ clock' = clock
    /\ (timer' # timer \/ now' = now)

\* C21: seconds(s, clock) reads clock() for its start value once, at its first
\* resume and not when it is called; with a non-decreasing integer clock every
\* resume at which clock() - start < s yields and the first resume at which
\* clock() - start >= s completes, and for s <= 0 the first resume completes
\* without a yield.
C21_SecondsWaits ==
    /\ [](/\ timer.samples <= 1
          /\ timer.pos = "new" => (timer.samples = 0 /\ timer.start = Undefined0))
    /\ [][SecondsResumed =>
            /\ timer.pos = "new" => (timer'.start = now[timer.fn] /\ timer'.samples = 1)
            /\ timer.pos = "susp" => (timer'.start = timer.start /\ timer'.samples = 1)
            /\ now'[timer.fn] - timer'.start < timer.s => timer'.pos = "susp"
            /\ now'[timer.fn] - timer'.start >= timer.s => timer'.pos = "done"
            /\ (timer.pos = "new" /\ timer.s <= 0) => timer'.pos = "done"]_vars

\* a wait of two seconds or more, started later than it was made, has yielded
\* and then completed
C21_Witness ==
    /\ timer.pos = "done"
    /\ timer.s >= 2
    /\ timer.start > timer.made
    /\ timer.at - timer.start >= timer.s

\* C22 as stated: after setClock(g) during a default-clock wait the start value
\* stays and every later check of the wait calls the current clock function:
\* the wait completes exactly if g() - start >= s.
C22_LiveClock ==
    [][(SecondsResumed /\ timer.dflt /\ timer.pos = "susp" /\ timer.setDuring) =>
            /\ timer'.start = timer.start
            /\ timer'.read = clock
            /\ timer'.pos = "done" <=> now'[clock] - timer.start >= timer.s]_vars

\* C22 amended: after setClock(g) during a default-clock wait the start value
\* stays and every later check of the wait still calls the clock function
\* that was the default when seconds was called: the wait completes exactly
\* if f() - start >= s, whatever g returns.
C22_BoundClock ==
    [][(SecondsResumed /\ timer.dflt /\ timer.pos = "susp" /\ timer.setDuring) =>
            /\ timer'.start = timer.start
            /\ timer'.read = timer.fn
            /\ timer'.pos = "done" <=> now'[timer.fn] - timer.start >= timer.s]_vars

\* a default-clock wait whose clock was replaced in flight has completed by
\* the old clock while the new clock says the time is not over
C22_Witness ==
    /\ timer.dflt /\ timer.setDuring
    /\ clock # timer.fn
    /\ timer.op = "next" /\ timer.pos = "done"
    /\ timer.read = timer.fn
    /\ now[clock] - timer.start < timer.s

\* every coroutine has finished, after exactly the resumes it needs
AllRanOut ==
    \A c \in 1..Len(waiters) : waiters[c].pos = "done" /\ waiters[c].resumes = waiters[c].t0 + 1

\* C29: if all coroutines, those that coroutines add included, finish after
\* finitely many resumes and none raises, a driver that keeps calling tick
\* while size is not zero comes to size 0, and then every coroutine has been
\* resumed exactly as often as it needed to finish.
C29_TicksTerminate ==
    (schedule.size # 0) ~>
        (pc = "idle" /\ schedule.size = 0 /\ AllRanOut /\ last.err.kind = "none")

\* the driver's loop has ended after a coroutine that had yielded added a
\* coroutine which yielded too
C29_Witness ==
    /\ pc = "idle"
    /\ schedule.size = 0
    /\ Len(waiters) = MaxNodes
    /\ \E c \in 1..Len(waiters) :
          /\ waiters[c].by # 0
          /\ waiters[c].resumes >= 2
          /\ waiters[waiters[c].by].resumes >= 2
    /\ AllRanOut

\* in the last call on the combinator a return() of the finally block ran the
\* cleanup of member m, and that cleanup threw
RaisedInReturn(m) ==
    /\ CleanupRaises(m)
    /\ \E i \in 1..(Len(log) - 1) :
          log[i] = Ev("return", m, 0) /\ log[i + 1] = Ev("cleanup", m, members[m].depth)

\* the last call on the combinator ended with the error of member m's cleanup
CleanupErrorOut(m) ==
    /\ result.out = "throw"
    /\ log # <<>>
    /\ log[Len(log)] = Ev("raise", m, members[m].depth)

\* in the last call on the combinator, a next(), the body of member w threw
ThrewInNext(w) ==
    /\ result.op = "next"
    /\ members[w].ending = "throw" /\ ~CleanupRaises(w)
    /\ ms[w].cnt = members[w].k
    /\ \E i \in 1..Len(log) : log[i] = Ev("next", w, 0)

\* C30: the forced returns that all and first issue raise nothing of their
\* own: a return() on the combinator raises only if a member's cleanup raised
\* in it, and a next() raises only what a member raised.  If a member's
\* cleanup raises during the pass of forced returns, that error is what the
\* call raises, in place of the result or the error that was under way.
C30_Claim ==
    /\ \A m \in 1..NMembers :
          RaisedInReturn(m) => (CleanupErrorOut(m) /\ fend.how = "raised" /\ fend.by = m)
    /\ (result.op = "return" /\ result.out = "throw") =>
          \E m \in 1..NMembers : RaisedInReturn(m)
    /\ (result.op = "next" /\ result.out = "throw") =>
          \/ \E m \in 1..NMembers : RaisedInReturn(m)
          \/ \E m \in 1..NMembers : CleanupRaises(m) /\ CleanupErrorOut(m)
          \/ \E w \in 1..NMembers : ThrewInNext(w) /\ log[Len(log)] = Ev("raise", w, 0)

\* a member threw in a next() of the combinator, the finally block's return()
\* of another member ran a cleanup that threw, and the call raised the
\* cleanup's error
C30_Witness ==
    \E m, w \in 1..NMembers :
        /\ m # w
        /\ ThrewInNext(w)
        /\ RaisedInReturn(m)
        /\ CleanupErrorOut(m)

\* every factory has been called once, and they were called in declared order
CalledOnceInOrder ==
    /\ Len(called) = Cardinality(factories)
    /\ Range(called) = factories
    /\ \A i, j \in 1..Len(called) : i < j => called[i] < called[j]

\* C31 as stated: the factories passed to all or first are called once each, in
\* declared order, when the combinator is called: from the call on, before
\* any resume, they have been called.
C31_FactoriesAtCall ==
    comb # "none" => CalledOnceInOrder

\* C31 amended: the factories passed to all or first are called once each, in
\* declared order, at the first resume of the combinator and not when it is
\* called; a combinator that is returned before its first resume calls none;
\* arguments that are generators are never called.
C31_FactoriesAtFirstResume ==
    /\ steps = 0 => (called = <<>> /\ \A m \in factories : ms[m].state = "unmade")
    /\ steps >= 1 => (CalledOnceInOrder /\ \A m \in factories : ms[m].state # "unmade")
    /\ \A m \in 1..NMembers : m \notin factories => m \notin Range(called)

\* a combinator that was given two factories and a generator has been resumed
C31_Witness ==
    /\ steps >= 1
    /\ Cardinality(factories) = 2
    /\ Len(called) = 2

\* the last call was a tick that ended with the error a resume raised
ResumeRaised ==
    /\ TickThrew
    /\ resumed # <<>>
    /\ outcome[Len(resumed)].r = "throw"

\* where node n is in the sequence q, 0 if nowhere
PlaceIn(q, n) == IF n \in Range(q) THEN CHOOSE i \in 1..Len(q) : q[i] = n ELSE 0

\* C32: the entry whose resume raised an error during a tick is not unlinked
\* by that tick, which has resumed the entries before it: it stays reachable
\* and counted in size.  The next tick resumes the entries before it and then
\* resumes it once more, gets a done result and no error from it, and unlinks
\* it.
C32_RaisedEntryStays ==
    /\ ResumeRaised =>
          /\ resumed[Len(resumed)] \in Range(Chain(schedule))
          /\ IsPrefix(resumed, liveAtStart)
          /\ validAtStart => schedule.size = Len(Chain(schedule))
    /\ (prevThrow # NULL /\ TickReturned) =>
          LET i == PlaceIn(resumed, prevThrow)
          IN /\ i # 0
             /\ Cardinality({k \in 1..Len(resumed) : resumed[k] = prevThrow}) = 1
             /\ outcome[i].r = "done"
             /\ outcome[i].err.kind = "none"
             /\ prevThrow \notin Range(Chain(schedule))
             /\ SubSeq(resumed, 1, i) = SubSeq(liveAtStart, 1, i)

\* a tick has returned that resumed an entry and then the entry whose resume
\* had ended the tick before with an error
C32_Witness ==
    /\ prevThrow # NULL
    /\ TickReturned
    /\ PlaceIn(resumed, prevThrow) >= 2

\* C33: while coroutines may call add, remove or removeAll on their own
\* schedule during a tick, size is never negative and always the number of
\* entries reachable from front; once a coroutine has called removeAll in a
\* tick, that tick resumes no further entry and size stays 0.
C33_Claim ==
    /\ schedule.size >= 0
    /\ schedule.size = actualSize(schedule)
    /\ last.op = "tick" =>
          \A k \in reentCalls :
              k.op = "removeAll" =>
                  /\ Len(resumed) = k.at
                  /\ schedule.nalloc = tnext => schedule.size = 0

\* C34: with no members, all completes at its first resume and never yields,
\* while first yields at every resume and ends only by a forced return.
C34_EmptyLists ==
    members = <<>> =>
        /\ comb = "all" =>
              /\ result.op = "next" => result.out = "done"
              /\ steps >= 1 => (fstate = "done" /\ fend.how = "completed" /\ fend.step = 1)
        /\ comb = "first" =>
              /\ fend.how \in {"no", "cancelled"}
              /\ fstate = "done" <=> fend.how = "cancelled"
              /\ (result.op = "next" /\ fend.how = "no") =>
                    (result.out = "yield" /\ fstate = "susp")

\* first() over no members has yielded at each of MaxSteps resumes
C34_Witness ==
    /\ members = <<>>
    /\ comb = "first"
    /\ steps = MaxSteps
    /\ result.out = "yield"
    /\ fstate = "susp"

====
